---- MODULE Spec2Model ----
(***************************************************************************)
(* State-machine model of nanobot's coordination core:                     *)
(*   - MessageBus            (src/nanobot/bus/queue.py)                    *)
(*   - InterruptionChecker   (src/nanobot/agent/steering.py)               *)
(*   - AgentMessage          (src/nanobot/agent/messages.py)               *)
(* Every coroutine runs on one asyncio event loop, so the code between two *)
(* awaits that really suspend is one atomic action.  The only suspension   *)
(* points are Queue.get() on an empty queue and wait_for(event.wait()).    *)
(***************************************************************************)
EXTENDS Integers, Sequences, FiniteSets, TLC

\* ------------------------------------------------------------------ bounds
\* total number of messages produced: publish_inbound, publish_outbound
\* and InterruptionChecker.signal calls together
MaxMsgs == 3
\* total number of register_stream_callback and get_stream_callback calls
MaxCalls == 3
\* number of register_stream_callback calls in the fair specification
MaxWaitRegs == 2
\* longest message list passed to get_latest_artifacts
MaxLen == 5
\* largest n passed to get_latest_artifacts
MaxN == 3

\* ------------------------------------------------------------- value sets
None == "None"
Msgs == {"M1", "M2"}
Sessions == {"S1", "S2"}
Consumers == {"c1", "c2"}
StreamIds == {"s1", "s2"}
Waiters == {"w1", "w2"}

VARIABLES
    \* ---- MessageBus fields
    inbound,                \* self.inbound  : asyncio.Queue, a sequence of messages
    outbound,               \* self.outbound : asyncio.Queue
    _stream_callbacks,      \* dict stream_id -> callback   (0 = no key)
    _stream_done_events,    \* dict stream_id -> Event ref  (0 = no key)
    events,                 \* heap of asyncio.Event objects: events[e] = its flag
    \* ---- InterruptionChecker fields, one checker per session
    _queue,                 \* self._queue : asyncio.Queue
    \* ---- tasks
    cpc,                    \* consumer task: "idle" or the queue it is suspended on
    wpc,                    \* wait_stream_done call: "idle", "waiting", "cancelled", "done"
    wid,                    \* its stream_id argument
    wev,                    \* its local `event` (0 = None)
    wres,                   \* its return value: "True" or "False" (None while it has not returned)
    ret,                    \* the last check() / drain_all() call and the messages it returned:
                            \* for check(), <<m>> is the message m and <<>> is None
    \* ---- history (observations of the calls made so far, no program state)
    pubIn, pubOut,          \* messages passed to publish_inbound / publish_outbound
    gotIn, gotOut,          \* messages returned by consume_inbound / consume_outbound
    sigAll,                 \* per session: messages passed to signal()
    sigSince,               \* per session: messages passed to signal() since the last drain_all()
    gotAll,                 \* per session: messages returned by check() / drain_all()
    evId,                   \* evId[e]: the stream id Event e was registered for
    markCount,              \* markCount[e]: mark_stream_done(evId[e]) calls since e was
                            \* registered: 0, 1, 2 = two or more
    markedPending,          \* per waiter: mark_stream_done(id) was called while the call was pending
    reReg,                  \* per waiter: its id was registered again after the call returned
    cbLog,                  \* per id: the register_stream_callback and get_stream_callback calls
                            \* on it, in order: <<"reg", cb>> or <<"got", returned value>>
                            \* (a returned None is 0)
    \* ---- AgentMessage: the pure functions and the values they are applied to
    mstep,                  \* "new", "projected", "lifted", "reprojected" ("none": unused)
    message,                \* an AgentMessage m
    llm,                    \* m.llm_dict
    lifted,                 \* AgentMessage.from_dict(m.llm_dict)
    llm2,                   \* AgentMessage.from_dict(m.llm_dict).llm_dict
    astep,                  \* "new", "called" ("none": unused)
    messages,               \* the list passed to get_latest_artifacts
    n,                      \* its argument n
    latest                  \* the list it returned

busVars == <<inbound, outbound, _stream_callbacks, _stream_done_events, events>>
queueHist == <<pubIn, pubOut, gotIn, gotOut>>
steerVars == <<_queue, sigAll, sigSince, gotAll>>
streamVars == <<_stream_callbacks, _stream_done_events, events, wpc, wid, wev, wres>>
streamHist == <<evId, markCount, markedPending, reReg, cbLog>>
msgVars == <<mstep, message, llm, lifted, llm2, astep, messages, n, latest>>
vars == <<inbound, outbound, _stream_callbacks, _stream_done_events, events, _queue,
          cpc, wpc, wid, wev, wres, ret,
          pubIn, pubOut, gotIn, gotOut, sigAll, sigSince, gotAll,
          evId, markCount, markedPending, reReg, cbLog,
          mstep, message, llm, lifted, llm2, astep, messages, n, latest>>

Returned(op, arg, val) == [op |-> op, arg |-> arg, val |-> val]

IsPrefix(s, t) == Len(s) <= Len(t) /\ SubSeq(t, 1, Len(s)) = s

RECURSIVE SumLen(_, _)
SumLen(f, S) ==
    IF S = {} THEN 0
    ELSE LET x == CHOOSE y \in S : TRUE IN Len(f[x]) + SumLen(f, S \ {x})

\* messages produced so far (history)
Produced == Len(pubIn) + Len(pubOut) + SumLen(sigAll, Sessions)

\* ------------------------------------------------------------------- Init
\* MessageBus.__init__ and InterruptionChecker.__init__: everything empty.
InitBus ==
    /\ inbound = <<>>
    /\ outbound = <<>>
    /\ _stream_callbacks = [i \in StreamIds |-> 0]
    /\ _stream_done_events = [i \in StreamIds |-> 0]
    /\ events = <<>>
    /\ _queue = [s \in Sessions |-> <<>>]
    /\ cpc = [c \in Consumers |-> "idle"]
    /\ wpc = [w \in Waiters |-> "idle"]
    /\ wid = [w \in Waiters |-> None]
    /\ wev = [w \in Waiters |-> 0]
    /\ wres = [w \in Waiters |-> None]
    /\ ret = Returned("none", None, <<>>)
    /\ pubIn = <<>> /\ pubOut = <<>> /\ gotIn = <<>> /\ gotOut = <<>>
    /\ sigAll = [s \in Sessions |-> <<>>]
    /\ sigSince = [s \in Sessions |-> <<>>]
    /\ gotAll = [s \in Sessions |-> <<>>]
    /\ evId = <<>>
    /\ markCount = <<>>
    /\ markedPending = [w \in Waiters |-> FALSE]
    /\ reReg = [w \in Waiters |-> FALSE]
    /\ cbLog = [i \in StreamIds |-> <<>>]

\* no AgentMessage function is being applied
InitNoMessage ==
    /\ mstep = "none" /\ astep = "none"
    /\ message = <<>> /\ llm = <<>> /\ lifted = <<>> /\ llm2 = <<>>
    /\ messages = <<>> /\ n = 0 /\ latest = <<>>

Init == InitBus /\ InitNoMessage

\* ------------------------------------------------ MessageBus: the two queues
\* Faulty variant: the message is put at the front of the queue.
publish_inbound_front(m) ==
    /\ Produced < MaxMsgs
    /\ inbound' = <<m>> \o inbound
    /\ pubIn' = Append(pubIn, m)
    /\ UNCHANGED <<outbound, pubOut, gotIn, gotOut, cpc, ret>>
    /\ UNCHANGED <<steerVars, streamVars, streamHist, msgVars>>

\* await self.inbound.put(msg): the queue is unbounded, so put never suspends.
publish_inbound(m) ==
    /\ Produced < MaxMsgs
    /\ inbound' = Append(inbound, m)
    /\ pubIn' = Append(pubIn, m)
    /\ UNCHANGED <<outbound, pubOut, gotIn, gotOut, cpc, ret>>
    /\ UNCHANGED <<steerVars, streamVars, streamHist, msgVars>>

\* return await self.inbound.get(): returns the head at once when the queue
\* is not empty, otherwise the caller suspends on a getter future.
consume_inbound(c) ==
    /\ cpc[c] = "idle"
    /\ IF inbound # <<>>
       THEN /\ inbound' = Tail(inbound)
            /\ gotIn' = Append(gotIn, Head(inbound))
            /\ cpc' = cpc
       ELSE /\ cpc' = [cpc EXCEPT ![c] = "inbound"]
            /\ UNCHANGED <<inbound, gotIn>>
    /\ UNCHANGED <<outbound, pubIn, pubOut, gotOut, ret>>
    /\ UNCHANGED <<steerVars, streamVars, streamHist, msgVars>>

\* Faulty variant: a suspended call is woken without a message and returns None.
consume_inbound_resume_spurious(c) ==
    /\ cpc[c] = "inbound"
    /\ cpc' = [cpc EXCEPT ![c] = "idle"]
    /\ UNCHANGED <<inbound, outbound, pubIn, pubOut, gotIn, gotOut, ret>>
    /\ UNCHANGED <<steerVars, streamVars, streamHist, msgVars>>

\* A suspended consume_inbound resumes once the queue holds a message
\* (Queue.get loops `while self.empty()` and then takes the head).
consume_inbound_resume(c) ==
    /\ cpc[c] = "inbound"
    /\ inbound # <<>>
    /\ inbound' = Tail(inbound)
    /\ gotIn' = Append(gotIn, Head(inbound))
    /\ cpc' = [cpc EXCEPT ![c] = "idle"]
    /\ UNCHANGED <<outbound, pubIn, pubOut, gotOut, ret>>
    /\ UNCHANGED <<steerVars, streamVars, streamHist, msgVars>>

\* Faulty variant: one queue object shared by both directions.
publish_outbound_shared(m) ==
    /\ Produced < MaxMsgs
    /\ outbound' = Append(outbound, m)
    /\ inbound' = Append(inbound, m)
    /\ pubOut' = Append(pubOut, m)
    /\ UNCHANGED <<pubIn, gotIn, gotOut, cpc, ret>>
    /\ UNCHANGED <<steerVars, streamVars, streamHist, msgVars>>

\* await self.outbound.put(msg)
publish_outbound(m) ==
    /\ Produced < MaxMsgs
    /\ outbound' = Append(outbound, m)
    /\ pubOut' = Append(pubOut, m)
    /\ UNCHANGED <<inbound, pubIn, gotIn, gotOut, cpc, ret>>
    /\ UNCHANGED <<steerVars, streamVars, streamHist, msgVars>>

consume_outbound(c) ==
    /\ cpc[c] = "idle"
    /\ IF outbound # <<>>
       THEN /\ outbound' = Tail(outbound)
            /\ gotOut' = Append(gotOut, Head(outbound))
            /\ cpc' = cpc
       ELSE /\ cpc' = [cpc EXCEPT ![c] = "outbound"]
            /\ UNCHANGED <<outbound, gotOut>>
    /\ UNCHANGED <<inbound, pubIn, pubOut, gotIn, ret>>
    /\ UNCHANGED <<steerVars, streamVars, streamHist, msgVars>>

consume_outbound_resume(c) ==
    /\ cpc[c] = "outbound"
    /\ outbound # <<>>
    /\ outbound' = Tail(outbound)
    /\ gotOut' = Append(gotOut, Head(outbound))
    /\ cpc' = [cpc EXCEPT ![c] = "idle"]
    /\ UNCHANGED <<inbound, pubIn, pubOut, gotIn, ret>>
    /\ UNCHANGED <<steerVars, streamVars, streamHist, msgVars>>

inbound_size == Len(inbound)
outbound_size == Len(outbound)

\* ------------------------------------------------------ InterruptionChecker

\* Faulty variant: the interrupting message is also published on the bus.
signal_also_inbound(s, m) ==
    /\ Produced < MaxMsgs
    /\ _queue' = [_queue EXCEPT ![s] = Append(@, m)]
    /\ inbound' = Append(inbound, m)
    /\ sigAll' = [sigAll EXCEPT ![s] = Append(@, m)]
    /\ sigSince' = [sigSince EXCEPT ![s] = Append(@, m)]
    /\ UNCHANGED <<gotAll, ret, cpc, outbound, queueHist>>
    /\ UNCHANGED <<streamVars, streamHist, msgVars>>

\* await self._queue.put(msg) on an unbounded queue, then a log line.
signal(s, m) ==
    /\ Produced < MaxMsgs
    /\ _queue' = [_queue EXCEPT ![s] = Append(@, m)]
    /\ sigAll' = [sigAll EXCEPT ![s] = Append(@, m)]
    /\ sigSince' = [sigSince EXCEPT ![s] = Append(@, m)]
    /\ UNCHANGED <<gotAll, ret, cpc, inbound, outbound, queueHist>>
    /\ UNCHANGED <<streamVars, streamHist, msgVars>>

\* Faulty variant: the newest pending message is taken instead of the oldest.
check_newest(s) ==
    /\ IF _queue[s] # <<>>
       THEN /\ ret' = Returned("check", s, <<_queue[s][Len(_queue[s])]>>)
            /\ _queue' = [_queue EXCEPT ![s] = SubSeq(@, 1, Len(@) - 1)]
            /\ gotAll' = [gotAll EXCEPT ![s] = Append(@, _queue[s][Len(_queue[s])])]
       ELSE /\ ret' = Returned("check", s, <<>>)
            /\ UNCHANGED <<_queue, gotAll>>
    /\ UNCHANGED <<sigAll, sigSince, cpc, inbound, outbound, queueHist>>
    /\ UNCHANGED <<streamVars, streamHist, msgVars>>

\* Faulty variant: a peek, the returned message stays in the queue.
check_peek(s) ==
    /\ IF _queue[s] # <<>>
       THEN /\ ret' = Returned("check", s, <<Head(_queue[s])>>)
            /\ gotAll' = [gotAll EXCEPT ![s] = Append(@, Head(_queue[s]))]
       ELSE /\ ret' = Returned("check", s, <<>>)
            /\ UNCHANGED gotAll
    /\ UNCHANGED <<_queue, sigAll, sigSince, cpc, inbound, outbound, queueHist>>
    /\ UNCHANGED <<streamVars, streamHist, msgVars>>

\* try: return self._queue.get_nowait()  except QueueEmpty: return None
check(s) ==
    /\ IF _queue[s] # <<>>
       THEN /\ ret' = Returned("check", s, <<Head(_queue[s])>>)
            /\ _queue' = [_queue EXCEPT ![s] = Tail(@)]
            /\ gotAll' = [gotAll EXCEPT ![s] = Append(@, Head(_queue[s]))]
       ELSE /\ ret' = Returned("check", s, <<>>)
            /\ UNCHANGED <<_queue, gotAll>>
    /\ UNCHANGED <<sigAll, sigSince, cpc, inbound, outbound, queueHist>>
    /\ UNCHANGED <<streamVars, streamHist, msgVars>>

\* The loop of drain_all: msgs.append(get_nowait()) until QueueEmpty.
\* Returns <<msgs, what is left of the queue>>.
RECURSIVE DrainLoop(_, _)
DrainLoop(q, msgs) ==
    IF q = <<>> THEN <<msgs, q>>
    ELSE DrainLoop(Tail(q), Append(msgs, Head(q)))

\* drain_all is a plain function: it has no await, so it runs atomically.
drain_all(s) ==
    LET r == DrainLoop(_queue[s], <<>>) IN
    /\ ret' = Returned("drain_all", s, r[1])
    /\ _queue' = [_queue EXCEPT ![s] = r[2]]
    /\ gotAll' = [gotAll EXCEPT ![s] = @ \o r[1]]
    /\ sigSince' = [sigSince EXCEPT ![s] = <<>>]
    /\ UNCHANGED <<sigAll, cpc, inbound, outbound, queueHist>>
    /\ UNCHANGED <<streamVars, streamHist, msgVars>>

has_pending(s) == ~(_queue[s] = <<>>)

\* ------------------------------------------------- MessageBus: the streams
\* get_stream_callback calls made so far on the ids in S (history)
RECURSIVE Gets(_)
Gets(S) ==
    IF S = {} THEN 0
    ELSE LET i == CHOOSE j \in S : TRUE IN
         Cardinality({k \in DOMAIN cbLog[i] : cbLog[i][k][1] = "got"}) + Gets(S \ {i})

\* register_stream_callback and get_stream_callback calls made so far (history)
StreamCalls == Len(events) + Gets(StreamIds)

\* Callbacks are opaque handles: the k-th registration passes callback k.
NewCallback == Len(events) + 1

\* Faulty variant: the new completion signal inherits the state of the one
\* it replaces.
register_stream_callback_inherit(i, cb) ==
    /\ StreamCalls < MaxCalls
    /\ _stream_callbacks' = [_stream_callbacks EXCEPT ![i] = cb]
    /\ events' = Append(events, IF _stream_done_events[i] # 0
                                THEN events[_stream_done_events[i]] ELSE FALSE)
    /\ _stream_done_events' = [_stream_done_events EXCEPT ![i] = Len(events) + 1]
    /\ evId' = Append(evId, i)
    /\ markCount' = Append(markCount, 0)
    /\ reReg' = [w \in Waiters |-> reReg[w] \/ (wpc[w] = "done" /\ wid[w] = i)]
    /\ cbLog' = [cbLog EXCEPT ![i] = Append(@, <<"reg", cb>>)]
    /\ UNCHANGED <<wpc, wid, wev, wres, markedPending>>
    /\ UNCHANGED <<inbound, outbound, cpc, ret, queueHist, steerVars, msgVars>>

\* self._stream_callbacks[stream_id] = callback
\* self._stream_done_events[stream_id] = asyncio.Event()
register_stream_callback(i, cb) ==
    /\ StreamCalls < MaxCalls
    /\ _stream_callbacks' = [_stream_callbacks EXCEPT ![i] = cb]
    /\ events' = Append(events, FALSE)
    /\ _stream_done_events' = [_stream_done_events EXCEPT ![i] = Len(events) + 1]
    /\ evId' = Append(evId, i)
    /\ markCount' = Append(markCount, 0)
    /\ reReg' = [w \in Waiters |-> reReg[w] \/ (wpc[w] = "done" /\ wid[w] = i)]
    /\ cbLog' = [cbLog EXCEPT ![i] = Append(@, <<"reg", cb>>)]
    /\ UNCHANGED <<wpc, wid, wev, wres, markedPending>>
    /\ UNCHANGED <<inbound, outbound, cpc, ret, queueHist, steerVars, msgVars>>

\* Faulty variant: dict.get instead of dict.pop, the entry stays.
get_stream_callback_keep(i) ==
    /\ StreamCalls < MaxCalls
    /\ cbLog' = [cbLog EXCEPT ![i] = Append(@, <<"got", _stream_callbacks[i]>>)]
    /\ UNCHANGED <<_stream_callbacks, _stream_done_events, events, wpc, wid, wev, wres>>
    /\ UNCHANGED <<evId, markCount, markedPending, reReg>>
    /\ UNCHANGED <<inbound, outbound, cpc, ret, queueHist, steerVars, msgVars>>

\* Faulty variant: the whole registry entry of the id is removed.
get_stream_callback_entry(i) ==
    /\ StreamCalls < MaxCalls
    /\ cbLog' = [cbLog EXCEPT ![i] = Append(@, <<"got", _stream_callbacks[i]>>)]
    /\ _stream_callbacks' = [_stream_callbacks EXCEPT ![i] = 0]
    /\ _stream_done_events' = [_stream_done_events EXCEPT ![i] = 0]
    /\ UNCHANGED <<events, wpc, wid, wev, wres>>
    /\ UNCHANGED <<evId, markCount, markedPending, reReg>>
    /\ UNCHANGED <<inbound, outbound, cpc, ret, queueHist, steerVars, msgVars>>

\* return self._stream_callbacks.pop(stream_id, None)      (None is 0 here)
get_stream_callback(i) ==
    /\ StreamCalls < MaxCalls
    /\ cbLog' = [cbLog EXCEPT ![i] = Append(@, <<"got", _stream_callbacks[i]>>)]
    /\ _stream_callbacks' = [_stream_callbacks EXCEPT ![i] = 0]
    /\ UNCHANGED <<_stream_done_events, events, wpc, wid, wev, wres>>
    /\ UNCHANGED <<evId, markCount, markedPending, reReg>>
    /\ UNCHANGED <<inbound, outbound, cpc, ret, queueHist, steerVars, msgVars>>

\* Faulty variant: the completion signal is toggled instead of set.
mark_stream_done_toggle(i) ==
    /\ IF _stream_done_events[i] # 0
       THEN events' = [events EXCEPT ![_stream_done_events[i]] = ~@]
       ELSE events' = events
    /\ markCount' = [e \in DOMAIN markCount |->
                        IF evId[e] = i /\ markCount[e] < 2
                        THEN markCount[e] + 1 ELSE markCount[e]]
    /\ markedPending' = [w \in Waiters |->
                            markedPending[w] \/ (wpc[w] = "waiting" /\ wid[w] = i)]
    /\ UNCHANGED <<_stream_callbacks, _stream_done_events, wpc, wid, wev, wres>>
    /\ UNCHANGED <<evId, reReg, cbLog>>
    /\ UNCHANGED <<inbound, outbound, cpc, ret, queueHist, steerVars, msgVars>>

\* if stream_id in self._stream_done_events:
\*     self._stream_done_events[stream_id].set()
mark_stream_done(i) ==
    /\ IF _stream_done_events[i] # 0
       THEN events' = [events EXCEPT ![_stream_done_events[i]] = TRUE]
       ELSE events' = events
    /\ markCount' = [e \in DOMAIN markCount |->
                        IF evId[e] = i /\ markCount[e] < 2
                        THEN markCount[e] + 1 ELSE markCount[e]]
    /\ markedPending' = [w \in Waiters |->
                            markedPending[w] \/ (wpc[w] = "waiting" /\ wid[w] = i)]
    /\ UNCHANGED <<_stream_callbacks, _stream_done_events, wpc, wid, wev, wres>>
    /\ UNCHANGED <<evId, reReg, cbLog>>
    /\ UNCHANGED <<inbound, outbound, cpc, ret, queueHist, steerVars, msgVars>>

\* Faulty variant: an id without completion signal yields False.
wait_stream_done_unknown_false(w, i) ==
    /\ wpc[w] = "idle"
    /\ wid' = [wid EXCEPT ![w] = i]
    /\ wev' = [wev EXCEPT ![w] = _stream_done_events[i]]
    /\ IF _stream_done_events[i] = 0
       THEN /\ wres' = [wres EXCEPT ![w] = "False"]
            /\ wpc' = [wpc EXCEPT ![w] = "done"]
       ELSE /\ wpc' = [wpc EXCEPT ![w] = "waiting"]
            /\ wres' = wres
    /\ UNCHANGED <<_stream_callbacks, _stream_done_events, events>>
    /\ UNCHANGED streamHist
    /\ UNCHANGED <<inbound, outbound, cpc, ret, queueHist, steerVars, msgVars>>

\* The call of wait_stream_done(stream_id, timeout), timeout > 0, up to its
\* first suspension:
\*     event = self._stream_done_events.get(stream_id)
\*     if not event: return True
\*     await asyncio.wait_for(event.wait(), timeout=timeout)
wait_stream_done(w, i) ==
    /\ wpc[w] = "idle"
    /\ wid' = [wid EXCEPT ![w] = i]
    /\ wev' = [wev EXCEPT ![w] = _stream_done_events[i]]
    /\ IF _stream_done_events[i] = 0
       THEN /\ wres' = [wres EXCEPT ![w] = "True"]
            /\ wpc' = [wpc EXCEPT ![w] = "done"]
       ELSE /\ wpc' = [wpc EXCEPT ![w] = "waiting"]
            /\ wres' = wres
    /\ UNCHANGED <<_stream_callbacks, _stream_done_events, events>>
    /\ UNCHANGED streamHist
    /\ UNCHANGED <<inbound, outbound, cpc, ret, queueHist, steerVars, msgVars>>

\* The Event the call waits on was set: wait_for returns, then
\*     return True
\*     finally: self._stream_done_events.pop(stream_id, None)
wait_stream_done_set(w) ==
    /\ wpc[w] = "waiting"
    /\ events[wev[w]]
    /\ wres' = [wres EXCEPT ![w] = "True"]
    /\ _stream_done_events' = [_stream_done_events EXCEPT ![wid[w]] = 0]
    /\ wpc' = [wpc EXCEPT ![w] = "done"]
    /\ UNCHANGED <<_stream_callbacks, events, wid, wev>>
    /\ UNCHANGED streamHist
    /\ UNCHANGED <<inbound, outbound, cpc, ret, queueHist, steerVars, msgVars>>

\* The timeout elapses while the Event is still unset: the event loop's
\* timer cancels the inner event.wait(); the call itself resumes later.
wait_stream_done_timeout(w) ==
    /\ wpc[w] = "waiting"
    /\ ~events[wev[w]]
    /\ wpc' = [wpc EXCEPT ![w] = "cancelled"]
    /\ UNCHANGED <<_stream_callbacks, _stream_done_events, events, wid, wev, wres>>
    /\ UNCHANGED streamHist
    /\ UNCHANGED <<inbound, outbound, cpc, ret, queueHist, steerVars, msgVars>>

\* Faulty variant: no `finally`, the timed-out call leaves the entry in place.
wait_stream_done_expired_keep(w) ==
    /\ wpc[w] = "cancelled"
    /\ wres' = [wres EXCEPT ![w] = "False"]
    /\ wpc' = [wpc EXCEPT ![w] = "done"]
    /\ UNCHANGED <<_stream_callbacks, _stream_done_events, events, wid, wev>>
    /\ UNCHANGED streamHist
    /\ UNCHANGED <<inbound, outbound, cpc, ret, queueHist, steerVars, msgVars>>

\* Faulty variant: the TimeoutError is swallowed and the call reports completion.
wait_stream_done_expired_true(w) ==
    /\ wpc[w] = "cancelled"
    /\ wres' = [wres EXCEPT ![w] = "True"]
    /\ _stream_done_events' = [_stream_done_events EXCEPT ![wid[w]] = 0]
    /\ wpc' = [wpc EXCEPT ![w] = "done"]
    /\ UNCHANGED <<_stream_callbacks, events, wid, wev>>
    /\ UNCHANGED streamHist
    /\ UNCHANGED <<inbound, outbound, cpc, ret, queueHist, steerVars, msgVars>>

\* The timed-out call resumes:
\*     except asyncio.TimeoutError: return False
\*     finally: self._stream_done_events.pop(stream_id, None)
wait_stream_done_expired(w) ==
    /\ wpc[w] = "cancelled"
    /\ wres' = [wres EXCEPT ![w] = "False"]
    /\ _stream_done_events' = [_stream_done_events EXCEPT ![wid[w]] = 0]
    /\ wpc' = [wpc EXCEPT ![w] = "done"]
    /\ UNCHANGED <<_stream_callbacks, events, wid, wev>>
    /\ UNCHANGED streamHist
    /\ UNCHANGED <<inbound, outbound, cpc, ret, queueHist, steerVars, msgVars>>

\* ------------------------------------------------------------ AgentMessage
\* Python values are written as strings: None is "None", the empty list is
\* "[]", the empty dict is "{}", the empty string is "".
Roles == {"user", "assistant", "system", "tool"}
MessageType == {"text", "tool_call", "tool_result", "artifact", "user_attachment", "system"}

\* the application-layer envelopes the functions are applied to
AgentMessages ==
    [role : Roles,
     content : {"hello", ""},
     msg_type : MessageType,
     metadata : {"{}", "{k: v}"},
     tool_calls : {None, "[]", "[tc1]"},
     tool_call_id : {None, "", "call_1"},
     tool_name : {None, "", "search"},
     reasoning_content : {None, "", "thought"},
     artifact : {None, "a1"},
     tags : {"[]", "[t1]"}]

\* Python truth value of the values above (`if x:`)
Truthy(v) == v \notin {None, "", "[]", "{}"}

\* d[k] = v on a dict
Put(d, k, v) == [x \in DOMAIN d \cup {k} |-> IF x = k THEN v ELSE d[x]]

\* d.get(k)
Get(d, k) == IF k \in DOMAIN d THEN d[k] ELSE None

\* Faulty variant: the projection also carries the tags.
llm_dict_with_tags(self) ==
    Put(Put([x \in {"role"} |-> self.role], "content", self.content), "tags", self.tags)

\* AgentMessage.llm_dict
llm_dict(self) ==
    LET msg0 == Put([x \in {"role"} |-> self.role], "content", self.content)
        msg1 == IF Truthy(self.tool_calls)
                THEN Put(msg0, "tool_calls", self.tool_calls) ELSE msg0
        msg2 == IF Truthy(self.tool_call_id)
                THEN Put(msg1, "tool_call_id", self.tool_call_id) ELSE msg1
        msg3 == IF Truthy(self.tool_name)
                THEN Put(msg2, "name", self.tool_name) ELSE msg2
        msg4 == IF self.reasoning_content # None
                THEN Put(msg3, "reasoning_content", self.reasoning_content) ELSE msg3
    IN  msg4

\* Faulty variant: the tool name is read from the key "tool_name".
from_dict_tool_name_key(d) ==
    LET role == d["role"] IN
    [role |-> role,
     content |-> Get(d, "content"),
     msg_type |-> IF role = "tool" THEN "tool_result"
                  ELSE IF Truthy(Get(d, "tool_calls")) THEN "tool_call"
                  ELSE IF role = "system" THEN "system"
                  ELSE "text",
     metadata |-> "{}",
     tool_calls |-> Get(d, "tool_calls"),
     tool_call_id |-> Get(d, "tool_call_id"),
     tool_name |-> Get(d, "tool_name"),
     reasoning_content |-> Get(d, "reasoning_content"),
     artifact |-> None,
     tags |-> "[]"]

\* AgentMessage.from_dict: the fields it does not pass to cls(...) take the
\* dataclass defaults (metadata {}, artifact None, tags []).
from_dict(d) ==
    LET role == d["role"] IN
    [role |-> role,
     content |-> Get(d, "content"),
     msg_type |-> IF role = "tool" THEN "tool_result"
                  ELSE IF Truthy(Get(d, "tool_calls")) THEN "tool_call"
                  ELSE IF role = "system" THEN "system"
                  ELSE "text",
     metadata |-> "{}",
     tool_calls |-> Get(d, "tool_calls"),
     tool_call_id |-> Get(d, "tool_call_id"),
     tool_name |-> Get(d, "name"),
     reasoning_content |-> Get(d, "reasoning_content"),
     artifact |-> None,
     tags |-> "[]"]

\* m.llm_dict is taken
call_llm_dict ==
    /\ mstep = "new"
    /\ llm' = llm_dict(message)
    /\ mstep' = "projected"
    /\ UNCHANGED <<message, lifted, llm2, astep, messages, n, latest>>
    /\ UNCHANGED <<inbound, outbound, cpc, ret, queueHist, steerVars, streamVars, streamHist>>

\* AgentMessage.from_dict is applied to that dict
call_from_dict ==
    /\ mstep = "projected"
    /\ lifted' = from_dict(llm)
    /\ mstep' = "lifted"
    /\ UNCHANGED <<message, llm, llm2, astep, messages, n, latest>>
    /\ UNCHANGED <<inbound, outbound, cpc, ret, queueHist, steerVars, streamVars, streamHist>>

\* the llm_dict of the lifted message is taken
call_llm_dict_lifted ==
    /\ mstep = "lifted"
    /\ llm2' = llm_dict(lifted)
    /\ mstep' = "reprojected"
    /\ UNCHANGED <<message, llm, lifted, astep, messages, n, latest>>
    /\ UNCHANGED <<inbound, outbound, cpc, ret, queueHist, steerVars, streamVars, streamHist>>

\* an AgentMessage of a conversation, with or without artifact
ListMessage(content, artifact) ==
    [role |-> "assistant", content |-> content, msg_type |-> "text",
     metadata |-> "{}", tool_calls |-> None, tool_call_id |-> None,
     tool_name |-> None, reasoning_content |-> None,
     artifact |-> artifact, tags |-> "[]"]

ListMessages ==
    {ListMessage("plain", None), ListMessage("r1", "a1"),
     ListMessage("r2", "a2"), ListMessage("r3", "a3")}

\* s[i:] of a Python list, for any integer i
SliceFrom(s, i) ==
    LET start == IF i < 0
                 THEN (IF Len(s) + i < 0 THEN 0 ELSE Len(s) + i)
                 ELSE (IF i > Len(s) THEN Len(s) ELSE i)
    IN  SubSeq(s, start + 1, Len(s))

HasArtifact(m) == m.artifact # None

\* AgentMessage.get_artifacts
get_artifacts(msgs) == SelectSeq(msgs, HasArtifact)

\* AgentMessage.get_latest_artifacts: get_artifacts(messages)[-n:]
get_latest_artifacts(msgs, k) == SliceFrom(get_artifacts(msgs), 0 - k)

call_get_latest_artifacts ==
    /\ astep = "new"
    /\ latest' = get_latest_artifacts(messages, n)
    /\ astep' = "called"
    /\ UNCHANGED <<mstep, message, llm, lifted, llm2, messages, n>>
    /\ UNCHANGED <<inbound, outbound, cpc, ret, queueHist, steerVars, streamVars, streamHist>>

\* ---------------------------------------------------------- specifications
\* get_latest_artifacts applied to every list of at most MaxLen messages and
\* every n in 0..MaxN
InitArtifacts ==
    /\ InitBus
    /\ mstep = "none" /\ message = <<>> /\ llm = <<>> /\ lifted = <<>> /\ llm2 = <<>>
    /\ astep = "new"
    /\ messages \in UNION {[1..len -> ListMessages] : len \in 0..MaxLen}
    /\ n \in 0..MaxN
    /\ latest = <<>>

NextArtifacts == call_get_latest_artifacts

SpecArtifacts == InitArtifacts /\ [][NextArtifacts]_vars

\* llm_dict and from_dict applied to every AgentMessage of AgentMessages
InitProjection ==
    /\ InitBus
    /\ mstep = "new" /\ message \in AgentMessages
    /\ llm = <<>> /\ lifted = <<>> /\ llm2 = <<>>
    /\ astep = "none" /\ messages = <<>> /\ n = 0 /\ latest = <<>>

NextProjection ==
    \/ call_llm_dict
    \/ call_from_dict
    \/ call_llm_dict_lifted

SpecProjection == InitProjection /\ [][NextProjection]_vars

NextQueues ==
    \/ \E m \in Msgs : publish_inbound(m)
    \/ \E m \in Msgs : publish_outbound(m)
    \/ \E c \in Consumers : consume_inbound(c)
    \/ \E c \in Consumers : consume_inbound_resume(c)
    \/ \E c \in Consumers : consume_outbound(c)
    \/ \E c \in Consumers : consume_outbound_resume(c)
    \/ \E s \in Sessions, m \in Msgs : signal(s, m)
    \/ \E s \in Sessions : check(s)
    \/ \E s \in Sessions : drain_all(s)

\* The two bus queues together with the per-session steering queues.
SpecQueues == Init /\ [][NextQueues]_vars

NextStreams ==
    \/ \E w \in Waiters : wait_stream_done_set(w)
    \/ \E w \in Waiters : wait_stream_done_expired(w)
    \/ \E w \in Waiters : wait_stream_done_timeout(w)
    \/ \E w \in Waiters, i \in StreamIds : wait_stream_done(w, i)
    \/ \E i \in StreamIds : register_stream_callback(i, NewCallback)
    \/ \E i \in StreamIds : get_stream_callback(i)
    \/ \E i \in StreamIds : mark_stream_done(i)

\* The two bus queues alone, with the event loop's guarantee that a task
\* whose getter future was completed by put() gets to run again.
NextBus ==
    \/ \E m \in Msgs : publish_inbound(m)
    \/ \E m \in Msgs : publish_outbound(m)
    \/ \E c \in Consumers : consume_inbound(c)
    \/ \E c \in Consumers : consume_inbound_resume(c)
    \/ \E c \in Consumers : consume_outbound(c)
    \/ \E c \in Consumers : consume_outbound_resume(c)

FairConsumers ==
    \A c \in Consumers :
        /\ WF_vars(consume_inbound_resume(c))
        /\ WF_vars(consume_outbound_resume(c))

SpecBusFair == Init /\ [][NextBus]_vars /\ FairConsumers

\* The stream registry of the bus and the wait_stream_done calls.
SpecStreams == Init /\ [][NextStreams]_vars

\* An asyncio timer always fires and a task whose future is done always
\* resumes: the three steps that end a suspended wait_stream_done are fair.
FairWaits ==
    \A w \in Waiters :
        /\ WF_vars(wait_stream_done_set(w))
        /\ WF_vars(wait_stream_done_timeout(w))
        /\ WF_vars(wait_stream_done_expired(w))

\* The completion signals alone: get_stream_callback, which touches only
\* the callback map, is left out.
NextWaits ==
    \/ \E w \in Waiters : wait_stream_done_set(w)
    \/ \E w \in Waiters : wait_stream_done_expired(w)
    \/ \E w \in Waiters : wait_stream_done_timeout(w)
    \/ \E w \in Waiters, i \in StreamIds : wait_stream_done(w, i)
    \/ \E i \in StreamIds : Len(events) < MaxWaitRegs /\ register_stream_callback(i, NewCallback)
    \/ \E i \in StreamIds : mark_stream_done(i)

SpecWaitsFair == Init /\ [][NextWaits]_vars /\ FairWaits

Next == NextQueues \/ NextStreams

Spec == Init /\ [][Next]_vars

\* ===================================================================== claims

\* C1: for each bus queue taken separately, under any interleaving of
\* publish and consume calls, the messages returned by the consume calls are
\* at every moment a prefix of the messages published to that queue, and
\* what has not been returned yet is still queued in publish order: nothing
\* is lost, duplicated or reordered.  So when as many messages were consumed
\* as published, they are the published ones in publish order.
C1_Fifo ==
    /\ IsPrefix(gotIn, pubIn)
    /\ IsPrefix(gotOut, pubOut)
    /\ pubIn = gotIn \o inbound
    /\ pubOut = gotOut \o outbound
    /\ (Len(gotIn) = Len(pubIn) => gotIn = pubIn)
    /\ (Len(gotOut) = Len(pubOut) => gotOut = pubOut)

\* two publishes then two consumes on inbound, while outbound still holds one
C1_Witness ==
    /\ pubIn = <<"M1", "M2">>
    /\ gotIn = <<"M1", "M2">>
    /\ pubOut = <<"M2">>
    /\ gotOut = <<>>

\* C2: if a wait_stream_done(id) call is pending on a registered id and
\* mark_stream_done(id) is called before that call's timeout elapses, the
\* call returns True, whatever the other waiters on id do.  Stated for the
\* case the claim singles out: id was registered once, so every waiter on
\* it holds the same completion signal.
C2_MarkedWaiterReturnsTrue ==
    \A w \in Waiters :
        ( /\ wpc[w] = "done"
          /\ markedPending[w]
          /\ \A e \in DOMAIN evId : evId[e] = wid[w] => e = wev[w] ) =>
            wres[w] = "True"

\* C3: once a wait_stream_done(id) call has returned and id has not been
\* registered again since, the registry holds neither a callback handle nor
\* a completion signal for id.
C3_NoEntryAfterWait ==
    \A w \in Waiters :
        (wpc[w] = "done" /\ ~reReg[w]) =>
            /\ _stream_callbacks[wid[w]] = 0
            /\ _stream_done_events[wid[w]] = 0

\* a wait that had found a completion signal for i has returned and i was
\* not registered again since
FoundReturned(i) ==
    \E w \in Waiters : wpc[w] = "done" /\ wid[w] = i /\ wev[w] # 0 /\ ~reReg[w]

\* C4: when a wait_stream_done(id) call that found a completion signal
\* returns (True or False), the completion-signal entry of id is gone; a
\* later wait_stream_done(id) with no registration in between returns True
\* at once, without suspending.
C4_EntryRemovedOnReturn ==
    [][\A w \in Waiters :
        /\ (wpc[w] \in {"waiting", "cancelled"} /\ wpc'[w] = "done") =>
               /\ wres'[w] \in {"True", "False"}
               /\ _stream_done_events'[wid[w]] = 0
        /\ (wpc[w] = "idle" /\ wpc'[w] # "idle" /\ FoundReturned(wid'[w])) =>
               /\ wpc'[w] = "done"
               /\ wres'[w] = "True"
      ]_vars

\* one call timed out on a registered id, a later call on it returned True at once
C4_Witness ==
    \E w1, w2 \in Waiters :
        /\ wpc[w1] = "done" /\ wev[w1] # 0 /\ wres[w1] = "False" /\ ~reReg[w1]
        /\ wpc[w2] = "done" /\ wev[w2] = 0 /\ wres[w2] = "True"
        /\ wid[w2] = wid[w1]

\* C5: a wait_stream_done(id) call that found id registered returns True only
\* if mark_stream_done(id) was called after that registration, and otherwise
\* ends by timeout with the boolean False; every call that suspends
\* eventually returns.
C5_TrueOnlyIfMarked ==
    /\ [](\A w \in Waiters :
            (wpc[w] = "done" /\ wev[w] # 0) =>
                /\ wres[w] \in {"True", "False"}
                /\ (wres[w] = "True" => markCount[wev[w]] > 0))
    /\ \A w \in Waiters :
            (wpc[w] \in {"waiting", "cancelled"}) ~> (wpc[w] = "done")

\* a call on a registered id whose mark_stream_done never came: it returned False
C5_Witness ==
    \E w \in Waiters :
        /\ wpc[w] = "done" /\ wev[w] # 0
        /\ markCount[wev[w]] = 0
        /\ wres[w] = "False"

\* C6: after register_stream_callback(id, cb) the first get_stream_callback(id)
\* returns cb and removes it; every further get before a new registration of
\* id (and every get on a never registered id) returns None.
C6_OneShotCallback ==
    \A i \in StreamIds :
        /\ \A k \in DOMAIN cbLog[i] :
              cbLog[i][k][1] = "got" =>
                  cbLog[i][k][2] = IF k > 1 /\ cbLog[i][k - 1][1] = "reg"
                                   THEN cbLog[i][k - 1][2]
                                   ELSE 0
        /\ (cbLog[i] # <<>> /\ cbLog[i][Len(cbLog[i])][1] = "got") =>
              _stream_callbacks[i] = 0

\* registered, handed out once, then None
C6_Witness ==
    \E i \in StreamIds :
        /\ Len(cbLog[i]) = 3
        /\ cbLog[i][1][1] = "reg"
        /\ cbLog[i][2] = <<"got", cbLog[i][1][2]>>
        /\ cbLog[i][3] = <<"got", 0>>

\* the fields of the MessageBus object
busState == <<inbound, outbound, _stream_callbacks, _stream_done_events, events>>

\* C7: mark_stream_done(id) never fails; on an id with no completion-signal
\* entry it leaves the whole bus unchanged; on a registered id it leaves the
\* signal set and the entry present, and a second call leaves the bus
\* exactly as the first one left it.
C7_MarkIdempotent ==
    [][\A i \in StreamIds :
        mark_stream_done(i) =>
            IF _stream_done_events[i] = 0
            THEN UNCHANGED busState
            ELSE /\ _stream_done_events' = _stream_done_events
                 /\ events'[_stream_done_events[i]] = TRUE
                 /\ (markCount[_stream_done_events[i]] > 0 => UNCHANGED busState)
      ]_vars

\* mark_stream_done was called twice on an id that is still registered
C7_Witness ==
    \E e \in DOMAIN events :
        /\ markCount[e] = 2
        /\ _stream_done_events[evId[e]] = e
        /\ events[e]

\* C8: wait_stream_done(id) on an id without completion-signal entry returns
\* True at once: the caller is not suspended and no registry entry is added
\* or removed.
C8_UnknownIdReturnsTrue ==
    [][\A w \in Waiters :
        (wpc[w] = "idle" /\ wpc'[w] # "idle" /\ _stream_done_events[wid'[w]] = 0) =>
            /\ wpc'[w] = "done"
            /\ wres'[w] = "True"
            /\ UNCHANGED <<_stream_callbacks, _stream_done_events, events>>
      ]_vars

\* a call on an id that was never registered has returned True
C8_Witness ==
    \E w \in Waiters :
        /\ wpc[w] = "done" /\ wev[w] = 0 /\ wres[w] = "True"
        /\ \A k \in DOMAIN cbLog[wid[w]] : cbLog[wid[w]][k][1] # "reg"

\* C9: drain_all() returns exactly the messages passed to signal() since the
\* previous drain_all(), in call order, as many as there were signal calls,
\* and has_pending is False right after it.
C9_DrainReturnsSignalled ==
    [][\A s \in Sessions :
        drain_all(s) =>
            /\ ret'.val = sigSince[s]
            /\ Len(ret'.val) = Len(sigSince[s])
            /\ ~has_pending(s)'
      ]_vars

\* C10: signal() never changes a bus queue and publish / consume never
\* change a checker queue; and when M1 was published and consumed and M2 was
\* then signalled to a session's checker and drained, drain_all() returned
\* [M2], the inbound queue is empty and so is the checker.
C10_SteeringIsolated ==
    /\ [][/\ (sigAll' # sigAll) => UNCHANGED <<inbound, outbound>>
          /\ (\/ pubIn' # pubIn \/ pubOut' # pubOut
              \/ gotIn' # gotIn \/ gotOut' # gotOut
              \/ cpc' # cpc) => UNCHANGED _queue
        ]_vars
    /\ [](\A s \in Sessions :
            ( /\ pubIn = <<"M1">> /\ gotIn = <<"M1">>
              /\ sigAll[s] = <<"M2">> /\ sigSince[s] = <<>>
              /\ ret.op = "drain_all" /\ ret.arg = s
              /\ gotAll[s] = ret.val ) =>
                /\ ret.val = <<"M2">>
                /\ inbound = <<>>
                /\ _queue[s] = <<>>)

\* the scenario: M1 published and consumed, M2 signalled and drained
C10_Witness ==
    /\ pubIn = <<"M1">> /\ gotIn = <<"M1">> /\ pubOut = <<>>
    /\ sigAll["S1"] = <<"M2">> /\ sigSince["S1"] = <<>>
    /\ ret = Returned("drain_all", "S1", <<"M2">>)
    /\ inbound = <<>>
    /\ _queue["S1"] = <<>>

C12_QueuesIndependent ==
    /\ [][/\ (\/ pubIn' # pubIn \/ gotIn' # gotIn
              \/ \E c \in Consumers : (cpc[c] = "inbound") # (cpc'[c] = "inbound")) =>
                 outbound' = outbound /\ outbound_size' = outbound_size
          /\ (\/ pubOut' # pubOut \/ gotOut' # gotOut
              \/ \E c \in Consumers : (cpc[c] = "outbound") # (cpc'[c] = "outbound")) =>
                 inbound' = inbound /\ inbound_size' = inbound_size
          /\ \A c \in Consumers :
                /\ (cpc[c] = "idle" /\ consume_outbound(c) /\ outbound # <<>>) =>
                       cpc'[c] = "idle" /\ gotOut' = Append(gotOut, Head(outbound))
                /\ (cpc[c] = "idle" /\ consume_inbound(c) /\ inbound # <<>>) =>
                       cpc'[c] = "idle" /\ gotIn' = Append(gotIn, Head(inbound))
        ]_vars
    /\ [](\A c \in Consumers :
            /\ (cpc[c] = "inbound" /\ inbound = <<>>) =>
                  /\ Produced < MaxMsgs => \A m \in Msgs : ENABLED publish_outbound(m)
                  /\ \A c2 \in Consumers : cpc[c2] = "idle" => ENABLED consume_outbound(c2)
            /\ (cpc[c] = "outbound" /\ outbound = <<>>) =>
                  /\ Produced < MaxMsgs => \A m \in Msgs : ENABLED publish_inbound(m)
                  /\ \A c2 \in Consumers : cpc[c2] = "idle" => ENABLED consume_inbound(c2))

\* a consumer is suspended on the empty inbound queue while M1 went through
\* the outbound queue
C12_Witness ==
    \E c, c2 \in Consumers :
        /\ cpc[c] = "inbound" /\ inbound = <<>> /\ pubIn = <<>>
        /\ cpc[c2] = "idle"
        /\ pubOut = <<"M1">> /\ gotOut = <<"M1">> /\ outbound = <<>>

\* C13: check() never suspends its caller: it can be called in every state
\* and returns in the same step, with the single oldest message that was
\* signalled and not yet returned when there is one, and with None (here
\* the empty tuple) when nothing is pending.
C13_CheckNonBlocking ==
    /\ [][\A s \in Sessions :
            check(s) =>
                /\ ret'.op = "check" /\ ret'.arg = s
                /\ ret'.val = IF Len(gotAll[s]) < Len(sigAll[s])
                              THEN <<sigAll[s][Len(gotAll[s]) + 1]>>
                              ELSE <<>>
                /\ (has_pending(s) <=> ret'.val # <<>>)
                /\ cpc' = cpc
        ]_vars
    /\ [](\A s \in Sessions : ENABLED check(s))

\* two messages pending, check() returned the older one and left the other
C13_Witness ==
    /\ sigAll["S1"] = <<"M1", "M2">>
    /\ ret = Returned("check", "S1", <<"M1">>)
    /\ _queue["S1"] = <<"M2">>

\* C14: register_stream_callback(id, cb2) on an id already registered with
\* cb1 does not fail and overwrites: the callback entry becomes cb2, so the
\* next get_stream_callback(id) returns cb2 and not cb1; id gets a new
\* completion signal that is unset, and no existing signal changes; a
\* wait_stream_done(id) that took the signal of a registration after which
\* mark_stream_done(id) was not called is not satisfied by earlier marks.
C14_ReRegistrationOverwrites ==
    /\ [][\A i \in StreamIds :
            register_stream_callback(i, NewCallback) =>
                /\ _stream_callbacks'[i] = NewCallback
                /\ _stream_callbacks'[i] # _stream_callbacks[i]
                /\ _stream_done_events'[i] \notin DOMAIN events
                /\ ~events'[_stream_done_events'[i]]
                /\ \A e \in DOMAIN events : events'[e] = events[e]
        ]_vars
    /\ [](\A i \in StreamIds :
            /\ StreamCalls < MaxCalls => ENABLED register_stream_callback(i, NewCallback)
            /\ \A k \in DOMAIN cbLog[i] :
                  ( /\ k > 2
                    /\ cbLog[i][k][1] = "got"
                    /\ cbLog[i][k - 1][1] = "reg"
                    /\ cbLog[i][k - 2][1] = "reg" ) =>
                        /\ cbLog[i][k][2] = cbLog[i][k - 1][2]
                        /\ cbLog[i][k][2] # cbLog[i][k - 2][2])
    /\ [](\A w \in Waiters :
            (wev[w] # 0 /\ markCount[wev[w]] = 0) =>
                /\ ~events[wev[w]]
                /\ (wpc[w] = "done" => wres[w] = "False"))

\* an id registered with cb1, marked done, registered again with cb2: the
\* get returned cb2 and a wait started after the second registration timed out
C14_Witness ==
    \E i \in StreamIds, w \in Waiters :
        /\ Len(cbLog[i]) = 3
        /\ cbLog[i][1][1] = "reg" /\ cbLog[i][2][1] = "reg"
        /\ cbLog[i][3] = <<"got", cbLog[i][2][2]>>
        /\ \E e1, e2 \in DOMAIN evId :
              /\ e1 < e2 /\ evId[e1] = i /\ evId[e2] = i
              /\ markCount[e1] > 0 /\ markCount[e2] = 0
              /\ wev[w] = e2 /\ wpc[w] = "done" /\ wres[w] = "False"

\* C15: from_dict infers msg_type by the first matching rule in this order:
\* tool_calls present gives TOOL_CALL, else role "tool" gives TOOL_RESULT,
\* else role "system" gives SYSTEM, else TEXT; so for every AgentMessage with
\* tool_calls set, whatever its role, from_dict(m.llm_dict) is a TOOL_CALL.
C15_MsgTypeInference ==
    (mstep \in {"lifted", "reprojected"}) =>
        /\ lifted.msg_type =
              IF Truthy(Get(llm, "tool_calls")) THEN "tool_call"
              ELSE IF llm["role"] = "tool" THEN "tool_result"
              ELSE IF llm["role"] = "system" THEN "system"
              ELSE "text"
        /\ (Truthy(message.tool_calls) => lifted.msg_type = "tool_call")

\* the keys an LLM API schema understands
LlmKeys == {"role", "content", "tool_calls", "tool_call_id", "name", "reasoning_content"}

\* C16: for every AgentMessage the keys of llm_dict are among role, content,
\* tool_calls, tool_call_id, name, reasoning_content; role and content are
\* always there, with the message's values; tool_calls is there whenever the
\* message has a non-empty tool_calls list; tags, artifact, metadata and
\* msg_type are never there.
C16_LlmDictKeys ==
    (mstep \in {"projected", "lifted", "reprojected"}) =>
        /\ DOMAIN llm \subseteq LlmKeys
        /\ {"role", "content"} \subseteq DOMAIN llm
        /\ llm["role"] = message.role /\ llm["content"] = message.content
        /\ (message.tool_calls \notin {None, "[]"}) =>
               ("tool_calls" \in DOMAIN llm /\ llm["tool_calls"] = message.tool_calls)
        /\ DOMAIN llm \cap {"tags", "artifact", "metadata", "msg_type"} = {}

\* the projection of a message that has tool calls, tags, an artifact and metadata
C16_Witness ==
    /\ mstep = "projected"
    /\ message.tool_calls = "[tc1]" /\ message.tags = "[t1]"
    /\ message.artifact = "a1" /\ message.metadata = "{k: v}"
    /\ message.msg_type = "tool_call"
    /\ DOMAIN llm = {"role", "content", "tool_calls"}

\* C17: for every message list and every n >= 0, get_latest_artifacts
\* returns the last n entries of the subsequence of messages carrying an
\* artifact, in original order, and the whole subsequence when it has fewer
\* than n entries: exactly min(n, k) entries for k artifact messages, none
\* for n = 0.
C17_LatestArtifacts ==
    (astep = "called") =>
        LET arts == SelectSeq(messages, LAMBDA m : m.artifact # None)
            k == Len(arts)
            want == IF n < k THEN n ELSE k
        IN  /\ Len(latest) = want
            /\ latest = SubSeq(arts, k - want + 1, k)
            /\ (n = 0 => latest = <<>>)

C19_MapsIndependent ==
    /\ [][/\ \A i \in StreamIds :
                \* a get_stream_callback(i) step: it is logged in cbLog[i]
                (Len(cbLog'[i]) > Len(cbLog[i]) /\ cbLog'[i][Len(cbLog'[i])][1] = "got") =>
                    UNCHANGED <<_stream_done_events, events>>
          \* a mark_stream_done step: it sets an Event or is counted
          /\ ( /\ Len(events') = Len(events)
               /\ \/ markCount' # markCount
                  \/ markedPending' # markedPending
                  \/ events' # events ) =>
                    UNCHANGED _stream_callbacks
          \* a step of a wait_stream_done call
          /\ \A w \in Waiters :
                (wpc'[w] # wpc[w]) =>
                    /\ UNCHANGED _stream_callbacks
                    /\ (wpc[w] = "waiting" /\ events[wev[w]]) => wres'[w] = "True"
          /\ (<<streamVars, streamHist>>' # <<streamVars, streamHist>>) =>
                /\ UNCHANGED <<inbound, outbound>>
                /\ inbound_size' = inbound_size
                /\ outbound_size' = outbound_size
        ]_vars
    /\ [](\A w \in Waiters :
            (wpc[w] = "waiting" /\ events[wev[w]]) => ENABLED wait_stream_done_set(w))

\* the callback of an id was fetched, the id was marked done once and a
\* waiter on it returned True
C19_Witness ==
    \E i \in StreamIds, w \in Waiters :
        /\ Len(cbLog[i]) = 2
        /\ cbLog[i][1][1] = "reg" /\ cbLog[i][2] = <<"got", cbLog[i][1][2]>>
        /\ _stream_callbacks[i] = 0
        /\ wid[w] = i /\ wev[w] # 0 /\ markCount[wev[w]] = 1
        /\ wpc[w] = "done" /\ wres[w] = "True"

\* C20: the LLM projection is stable under a round trip: for every
\* AgentMessage m, from_dict(m.llm_dict).llm_dict equals m.llm_dict, while
\* from_dict(m.llm_dict) itself has lost m's tags, artifact and metadata.
C20_ProjectionRoundTrip ==
    /\ (mstep = "reprojected") => llm2 = llm
    /\ (mstep \in {"lifted", "reprojected"}) =>
          /\ lifted.tags = "[]"
          /\ lifted.artifact = None
          /\ lifted.metadata = "{}"

\* a tool-call message with tags, artifact, metadata and all optional LLM
\* fields went through the round trip; the lifted message differs from it
C20_Witness ==
    /\ mstep = "reprojected"
    /\ message.tags = "[t1]" /\ message.artifact = "a1" /\ message.metadata = "{k: v}"
    /\ DOMAIN llm = LlmKeys
    /\ lifted # message
    /\ llm2 = llm

====
